---- MODULE Spec2Model ----
(***************************************************************************)
(* Investment Video Analyzer (src/app.py): the pipeline                    *)
(*   resolve -> acquire -> submit -> parse -> display                      *)
(* run by the three input branches of main(), the host's portfolio          *)
(* actions, and the text functions of parse_gemini_response.               *)
(*                                                                         *)
(* Texts are sequences of characters, each a one-character string (the     *)
(* backtick is written "bt").  Python values (the result of json.loads,    *)
(* None) are tagged tuples:                                                *)
(*   <<"none">>  <<"bool", b>>  <<"int", n>>  <<"str", text>>               *)
(*   <<"list", <<v1, ..., vn>> >>  <<"obj", [key text |-> value]>>          *)
(***************************************************************************)
EXTENDS Integers, Sequences, FiniteSets, TLC

VARIABLES
    pc,                 \* position of the script run
    input_type,         \* the st.radio choice of main()
    investments,        \* st.session_state.investments: symbol -> details
    investments_before, \* history: the portfolio when the invocation began
    video_info,         \* result of get_video_info_basic
    max_size_mb,        \* the size budget download_video_for_gemini got
    fs,                 \* this invocation's temporary storage on disk
    video_path,         \* what download_video_for_gemini returned
    response_text,      \* what analyze_video_with_gemini returned
    analysis_result,    \* what parse_gemini_response returned
    shown,              \* what display_analysis_results rendered
    service_calls,      \* generate_content requests issued, oldest first
    errors,             \* st.error / st.warning messages, by kind
    escaped,            \* an exception left the handler and reached the host
    video_url,          \* the URL typed in
    called,             \* history: the functions main() has called, in order
    env                 \* history: what the collaborators did in this invocation

vars == <<pc, input_type, investments, investments_before, video_info,
          max_size_mb, fs, video_path, response_text, analysis_result, shown,
          service_calls, errors, escaped, video_url, called, env>>

-----------------------------------------------------------------------------
(* Python str primitives                                                   *)

None == <<"none">>

Min(a, b) == IF a <= b THEN a ELSE b

\* s[a:b] for 0 <= a, 0 <= b (Python slicing, zero based, end exclusive)
Slice(s, a, b) ==
    IF Min(b, Len(s)) <= a THEN <<>> ELSE SubSeq(s, a + 1, Min(b, Len(s)))

\* s[:n]
Prefix(s, n) == Slice(s, 0, n)

\* whether sub occurs in s at zero-based offset i
OccursAt(s, sub, i) ==
    /\ i + Len(sub) <= Len(s)
    /\ \A k \in 1..Len(sub) : s[i + k] = sub[k]

\* s.find(sub): lowest zero-based offset, -1 when absent
Find(s, sub) ==
    LET hits == {i \in 0..Len(s) : OccursAt(s, sub, i)}
    IN  IF hits = {} THEN -1 ELSE CHOOSE i \in hits : \A j \in hits : i <= j

\* s.rfind(sub): highest zero-based offset, -1 when absent
RFind(s, sub) ==
    LET hits == {i \in 0..Len(s) : OccursAt(s, sub, i)}
    IN  IF hits = {} THEN -1 ELSE CHOOSE i \in hits : \A j \in hits : i >= j

\* sub in s
Contains(s, sub) == Find(s, sub) # -1

\* s.split(sep): the list of pieces between non-overlapping occurrences of sep
RECURSIVE Split(_, _)
Split(s, sep) ==
    LET i == Find(s, sep)
    IN  IF i = -1 THEN <<s>>
        ELSE <<Prefix(s, i)>> \o Split(Slice(s, i + Len(sep), Len(s)), sep)

Whitespace == {" ", "\n", "\t", "\r"}

\* s.strip()
RECURSIVE LStrip(_)
LStrip(s) == IF s # <<>> /\ Head(s) \in Whitespace THEN LStrip(Tail(s)) ELSE s

RECURSIVE RStrip(_)
RStrip(s) ==
    IF s # <<>> /\ s[Len(s)] \in Whitespace
    THEN RStrip(SubSeq(s, 1, Len(s) - 1)) ELSE s

Strip(s) == RStrip(LStrip(s))

LowerOf == [c \in {"H", "I", "G", "M", "L", "O", "W"} |->
              CASE c = "H" -> "h" [] c = "I" -> "i" [] c = "G" -> "g"
                [] c = "M" -> "m" [] c = "L" -> "l" [] c = "O" -> "o"
                [] c = "W" -> "w"]

\* s.lower() over the letters the model's texts use
Lower(s) == [i \in 1..Len(s) |-> IF s[i] \in DOMAIN LowerOf THEN LowerOf[s[i]] ELSE s[i]]

-----------------------------------------------------------------------------
(* json.loads (the standard library's decoder), over texts without         *)
(* backslash, sign or decimal point                                        *)

Digits == {"0", "1", "2", "3", "4", "5", "6", "7", "8", "9"}

DigitVal == [c \in Digits |->
               CASE c = "0" -> 0 [] c = "1" -> 1 [] c = "2" -> 2 [] c = "3" -> 3
                 [] c = "4" -> 4 [] c = "5" -> 5 [] c = "6" -> 6 [] c = "7" -> 7
                 [] c = "8" -> 8 [] c = "9" -> 9]

\* s[i:i+1] at one-based position i: "" past the end
At(s, i) == IF i \in 1..Len(s) THEN s[i] ELSE ""

DecodeFail == [ok |-> FALSE, val |-> None, end |-> 0]

DecodeOk(v, e) == [ok |-> TRUE, val |-> v, end |-> e]

\* WHITESPACE.match(s, i).end(): the first position at or after i that holds no JSON whitespace
SkipWs(s, i) ==
    LET stops == {j \in i..(Len(s) + 1) : At(s, j) \notin Whitespace}
    IN  CHOOSE j \in stops : \A k \in stops : j <= k

\* scanstring(s, i, strict=True): i is just after the opening quote
ScanString(s, i) ==
    LET quotes == {j \in i..Len(s) : s[j] = "\""}
    IN  IF quotes = {} THEN DecodeFail
        ELSE LET j == CHOOSE q \in quotes : \A r \in quotes : q <= r
             IN  IF \E k \in i..(j - 1) : s[k] \in {"\n", "\t", "\r"}
                 THEN DecodeFail
                 ELSE DecodeOk(SubSeq(s, i, j - 1), j + 1)

\* the end of the run of digits that starts at i
DigitsEnd(s, i) ==
    LET stops == {j \in i..(Len(s) + 1) : At(s, j) \notin Digits}
    IN  CHOOSE j \in stops : \A k \in stops : j <= k

RECURSIVE DecimalValue(_)
DecimalValue(ds) ==
    IF ds = <<>> THEN 0
    ELSE 10 * DecimalValue(SubSeq(ds, 1, Len(ds) - 1)) + DigitVal[ds[Len(ds)]]

RECURSIVE Pow10(_)
Pow10(n) == IF n = 0 THEN 1 ELSE 10 * Pow10(n - 1)

\* NUMBER_RE matched at i, a digit: the integer part (0, or a run of digits that
\* does not start with 0), then an optional exponent (e or E and a run of digits)
ScanNumber(s, i) ==
    LET intEnd == IF s[i] = "0" THEN i + 1 ELSE DigitsEnd(s, i)
        n      == DecimalValue(SubSeq(s, i, intEnd - 1))
        hasExp == At(s, intEnd) \in {"e", "E"} /\ At(s, intEnd + 1) \in Digits
        expEnd == DigitsEnd(s, intEnd + 1)
    IN  IF hasExp
        THEN DecodeOk(<<"float", n * Pow10(DecimalValue(SubSeq(s, intEnd + 1, expEnd - 1)))>>, expEnd)
        ELSE DecodeOk(<<"int", n>>, intEnd)

\* dict(pairs): a later pair with the same key replaces the value, in place
PutPair(pairs, k, v) ==
    IF \E n \in 1..Len(pairs) : pairs[n][1] = k
    THEN [n \in 1..Len(pairs) |-> IF pairs[n][1] = k THEN <<k, v>> ELSE pairs[n]]
    ELSE Append(pairs, <<k, v>>)

RECURSIVE ScanOnce(_, _)
RECURSIVE ObjectPairs(_, _, _)
RECURSIVE ArrayItems(_, _, _)

\* the loop of JSONObject: i is just after the opening quote of a key
ObjectPairs(s, i, acc) ==
    LET k == ScanString(s, i)
    IN  IF ~k.ok THEN DecodeFail
        ELSE LET c == SkipWs(s, k.end)
             IN  IF At(s, c) # ":" THEN DecodeFail
                 ELSE LET v == ScanOnce(s, SkipWs(s, c + 1))
                      IN  IF ~v.ok THEN DecodeFail
                          ELSE LET acc2 == PutPair(acc, k.val, v.val)
                                   d    == SkipWs(s, v.end)
                                   q    == SkipWs(s, d + 1)
                               IN  IF At(s, d) = "}" THEN DecodeOk(<<"obj", acc2>>, d + 1)
                                   ELSE IF At(s, d) # "," THEN DecodeFail
                                   ELSE IF At(s, q) # "\"" THEN DecodeFail
                                   ELSE ObjectPairs(s, q + 1, acc2)

\* JSONObject: i is just after the opening brace
JSONObject(s, i) ==
    LET j == SkipWs(s, i)
    IN  IF At(s, j) = "}" THEN DecodeOk(<<"obj", <<>>>>, j + 1)
        ELSE IF At(s, j) # "\"" THEN DecodeFail
        ELSE ObjectPairs(s, j + 1, <<>>)

\* the loop of JSONArray: i is at the start of a value
ArrayItems(s, i, acc) ==
    LET v == ScanOnce(s, i)
    IN  IF ~v.ok THEN DecodeFail
        ELSE LET d == SkipWs(s, v.end)
             IN  IF At(s, d) = "]" THEN DecodeOk(<<"list", Append(acc, v.val)>>, d + 1)
                 ELSE IF At(s, d) # "," THEN DecodeFail
                 ELSE ArrayItems(s, SkipWs(s, d + 1), Append(acc, v.val))

\* JSONArray: i is just after the opening bracket
JSONArray(s, i) ==
    LET j == SkipWs(s, i)
    IN  IF At(s, j) = "]" THEN DecodeOk(<<"list", <<>>>>, j + 1)
        ELSE ArrayItems(s, j, <<>>)

\* scan_once(s, i)
ScanOnce(s, i) ==
    LET c == At(s, i)
    IN  CASE c = "\"" ->
               LET r == ScanString(s, i + 1)
               IN  IF r.ok THEN DecodeOk(<<"str", r.val>>, r.end) ELSE DecodeFail
          [] c = "{" -> JSONObject(s, i + 1)
          [] c = "[" -> JSONArray(s, i + 1)
          [] c = "n" /\ OccursAt(s, <<"n", "u", "l", "l">>, i - 1) -> DecodeOk(None, i + 4)
          [] c = "t" /\ OccursAt(s, <<"t", "r", "u", "e">>, i - 1) -> DecodeOk(<<"bool", TRUE>>, i + 4)
          [] c = "f" /\ OccursAt(s, <<"f", "a", "l", "s", "e">>, i - 1) -> DecodeOk(<<"bool", FALSE>>, i + 5)
          [] c \in Digits -> ScanNumber(s, i)
          [] OTHER -> DecodeFail

\* json.loads(s): ok is FALSE where it raises JSONDecodeError
JSONLoads(s) ==
    LET r == ScanOnce(s, SkipWs(s, 1))
    IN  IF r.ok /\ SkipWs(s, r.end) = Len(s) + 1
        THEN [ok |-> TRUE, val |-> r.val]
        ELSE [ok |-> FALSE, val |-> None]

-----------------------------------------------------------------------------
(* parse_gemini_response                                                   *)

\* the backtick character
BT == "bt"

FenceJson == <<BT, BT, BT, "j", "s", "o", "n">>

Fence == <<BT, BT, BT>>

ExcerptLen == 500

\* lines 151-154: the text taken out of the first fenced block, if any
FenceExtract(raw) ==
    IF Contains(raw, FenceJson)
    THEN Split(Split(raw, FenceJson)[2], Fence)[1]
    ELSE IF Contains(raw, Fence)
    THEN Split(Split(raw, Fence)[2], Fence)[1]
    ELSE raw

\* line 157: response_text after the fence extraction and strip()
WorkingText(raw) == Strip(FenceExtract(raw))

\* JsonCandidate with the object closed at the first brace instead of the last
JsonCandidateFirstClose(raw) ==
    LET text      == WorkingText(raw)
        start_idx == Find(text, <<"{">>)
        end_idx   == Find(text, <<"}">>) + 1
    IN  IF start_idx # -1 /\ end_idx # -1
        THEN Slice(text, start_idx, end_idx)
        ELSE text

\* lines 160-168: the text handed to json.loads
JsonCandidate(raw) ==
    LET text      == WorkingText(raw)
        start_idx == Find(text, <<"{">>)
        end_idx   == RFind(text, <<"}">>) + 1
    IN  IF start_idx # -1 /\ end_idx # -1
        THEN Slice(text, start_idx, end_idx)
        ELSE text

\* line 172: the excerpt of the reported "Raw response"; the variable was reassigned
FailureExcerpt(raw) == Prefix(WorkingText(raw), ExcerptLen)

\* parse_gemini_response: the value returned, and what st.error reported
parse_gemini_response(raw) ==
    LET dec == JSONLoads(JsonCandidate(raw))
    IN  IF dec.ok
        THEN [value |-> dec.val, failed |-> FALSE, excerpt |-> <<>>]
        ELSE [value |-> None, failed |-> TRUE, excerpt |-> FailureExcerpt(raw)]

-----------------------------------------------------------------------------
(* display_analysis_results                                                *)

K_relevance_score ==
    <<"r", "e", "l", "e", "v", "a", "n", "c", "e", "_", "s", "c", "o", "r", "e">>

K_content_summary ==
    <<"c", "o", "n", "t", "e", "n", "t", "_", "s", "u", "m", "m", "a", "r", "y">>

K_summary == <<"s", "u", "m", "m", "a", "r", "y">>

K_specific_matches ==
    <<"s", "p", "e", "c", "i", "f", "i", "c", "_", "m", "a", "t", "c", "h", "e", "s">>

K_key_insights == <<"k", "e", "y", "_", "i", "n", "s", "i", "g", "h", "t", "s">>

K_action_items == <<"a", "c", "t", "i", "o", "n", "_", "i", "t", "e", "m", "s">>

K_risk_assessment ==
    <<"r", "i", "s", "k", "_", "a", "s", "s", "e", "s", "s", "m", "e", "n", "t">>

K_visual_elements ==
    <<"v", "i", "s", "u", "a", "l", "_", "e", "l", "e", "m", "e", "n", "t", "s">>

T_unknown == <<"u", "n", "k", "n", "o", "w", "n">>

T_high == <<"h", "i", "g", "h">>

T_medium == <<"m", "e", "d", "i", "u", "m">>

T_low == <<"l", "o", "w">>

T_no_summary ==
    <<"N", "o", " ", "s", "u", "m", "m", "a", "r", "y", " ",
      "a", "v", "a", "i", "l", "a", "b", "l", "e">>

Tag(v) == v[1]

\* bool(v)
Truthy(v) ==
    CASE Tag(v) = "none" -> FALSE
      [] Tag(v) = "bool" -> v[2]
      [] Tag(v) \in {"int", "float"} -> v[2] # 0
      [] OTHER -> v[2] # <<>>

\* d.get(key, default) on a dict value
Get(d, key, default) ==
    LET hits == {n \in 1..Len(d[2]) : d[2][n][1] = key}
    IN  IF hits = {} THEN default ELSE d[2][CHOOSE n \in hits : TRUE][2]

\* whether v >= 80 evaluates: a str, list, dict or None operand raises TypeError
Orderable(v) == Tag(v) \in {"int", "float", "bool"}

NumberOf(v) == IF Tag(v) = "bool" THEN (IF v[2] THEN 1 ELSE 0) ELSE v[2]

\* whether "for x in v" evaluates
Iterable(v) == Tag(v) \in {"list", "str", "obj"}

\* the items "for x in v" yields
Items(v) ==
    CASE Tag(v) = "list" -> v[2]
      [] Tag(v) = "str" -> [n \in 1..Len(v[2]) |-> <<"str", <<v[2][n]>>>>]
      [] Tag(v) = "obj" -> [n \in 1..Len(v[2]) |-> <<"str", v[2][n][1]>>]
      [] OTHER -> <<>>

\* lines 201-204 and alike: the section of one list field; ok is FALSE where it raises TypeError
ListSection(d, key) ==
    LET v == Get(d, key, None)
    IN  IF ~Truthy(v) THEN [ok |-> TRUE, items |-> <<>>]
        ELSE IF Iterable(v) THEN [ok |-> TRUE, items |-> Items(v)]
        ELSE [ok |-> FALSE, items |-> <<>>]

NothingShown ==
    [raised |-> "", rendered |-> FALSE, band |-> "", score |-> None,
     content_summary |-> None, summary |-> None, specific_matches |-> <<>>,
     key_insights |-> <<>>, action_items |-> <<>>, risk |-> <<>>,
     risk_style |-> "", visual_elements |-> <<>>]

\* display_analysis_results(analysis_result): what is rendered, and the exception
\* raised, if any, at the first statement that fails
display_analysis_results(r) ==
    IF ~Truthy(r) THEN NothingShown
    ELSE IF Tag(r) # "obj" THEN [NothingShown EXCEPT !.raised = "AttributeError"]
    ELSE
    LET score    == Get(r, K_relevance_score, <<"int", 0>>)
        band     == IF NumberOf(score) >= 80 THEN "success"
                    ELSE IF NumberOf(score) >= 50 THEN "warning" ELSE "info"
        content  == Get(r, K_content_summary, None)
        matches  == ListSection(r, K_specific_matches)
        insights == ListSection(r, K_key_insights)
        actions  == ListSection(r, K_action_items)
        riskv    == Get(r, K_risk_assessment, <<"str", T_unknown>>)
        risk     == Lower(riskv[2])
        visual   == ListSection(r, K_visual_elements)
        s1 == [NothingShown EXCEPT !.rendered = TRUE]
        s2 == [s1 EXCEPT !.band = band, !.score = score,
                         !.content_summary = IF Truthy(content) THEN content ELSE None,
                         !.summary = Get(r, K_summary, <<"str", T_no_summary>>)]
        s3 == [s2 EXCEPT !.specific_matches = matches.items]
        s4 == [s3 EXCEPT !.key_insights = insights.items]
        s5 == [s4 EXCEPT !.action_items = actions.items]
        s6 == [s5 EXCEPT !.risk = risk,
                         !.risk_style = IF risk = T_high THEN "error"
                                        ELSE IF risk = T_medium THEN "warning"
                                        ELSE "success"]
        s7 == [s6 EXCEPT !.visual_elements = visual.items]
    IN  IF ~Orderable(score) THEN [s1 EXCEPT !.raised = "TypeError"]
        ELSE IF ~matches.ok THEN [s2 EXCEPT !.raised = "TypeError"]
        ELSE IF ~insights.ok THEN [s3 EXCEPT !.raised = "TypeError"]
        ELSE IF ~actions.ok THEN [s4 EXCEPT !.raised = "TypeError"]
        ELSE IF Tag(riskv) # "str" THEN [s5 EXCEPT !.raised = "AttributeError"]
        ELSE IF ~visual.ok THEN [s6 EXCEPT !.raised = "TypeError"]
        ELSE s7

-----------------------------------------------------------------------------
(* Bounds and inputs                                                       *)

\* file sizes are drawn within MaxDelta bytes of the budget
MaxDelta == 1

\* size budgets tried on download_video_for_gemini, besides the default
MaxBudgetMB == 3

\* tokens of commentary put before and after the embedded body
MaxNoise == 1

\* 1024 * 1024
MiB == 1048576

DefaultMaxSizeMB == 20

UploadLimitMB == 20

Symbols == {"AAPL", "BTC"}

InvestmentTypes == {"Stock", "Cryptocurrency"}

Amounts == {1000}

YouTubeUrl == <<"y", "o", "u", "t", "u", "b", "e", ".", "c", "o", "m", "/", "w">>

ShortUrl == <<"y", "o", "u", "t", "u", ".", "b", "e", "/", "w">>

TikTokUrl == <<"t", "i", "k", "t", "o", "k", ".", "c", "o", "m", "/", "v">>

Urls == {YouTubeUrl, ShortUrl, TikTokUrl}

\* sizes in bytes around a budget of mb megabytes
SizesAround(mb) == {0} \cup {mb * MiB + d : d \in (0 - MaxDelta)..MaxDelta}

-----------------------------------------------------------------------------
(* get_video_info_basic                                                    *)

\* ydl.extract_info(url, download=False): raises, or an info dict with or without
\* the title and duration keys
ExtractOutcomes == {"raises", "full", "bare"}

InfoTitle(outcome) == IF outcome = "full" THEN "Clip" ELSE "Unknown"

InfoDuration(outcome) == IF outcome = "full" THEN 30 ELSE 0

PlatformOf(url) ==
    IF Contains(url, <<"y", "o", "u", "t", "u", "b", "e", ".", "c", "o", "m">>)
       \/ Contains(url, <<"y", "o", "u", "t", "u", ".", "b", "e">>)
    THEN "YouTube" ELSE "Other"

NoInfo == [title |-> "", duration |-> 0, url |-> <<>>, platform |-> ""]

\* get_video_info_basic without its except clause: the extraction error leaves it
get_video_info_uncaught(url, outcome) ==
    [info |-> [title |-> InfoTitle(outcome), duration |-> InfoDuration(outcome),
               url |-> url, platform |-> PlatformOf(url)],
     error |-> FALSE, raised |-> outcome = "raises"]

\* get_video_info_basic(url): the record returned, whether st.error was called,
\* and whether an exception left the function
get_video_info_basic(url, outcome) ==
    IF outcome = "raises"
    THEN [info |-> [title |-> "Unknown", duration |-> 0, url |-> url, platform |-> "Unknown"],
          error |-> TRUE, raised |-> FALSE]
    ELSE [info |-> [title |-> InfoTitle(outcome), duration |-> InfoDuration(outcome),
                    url |-> url, platform |-> PlatformOf(url)],
          error |-> FALSE, raised |-> FALSE]

-----------------------------------------------------------------------------
(* download_video_for_gemini                                               *)

NoPath == "None"

DownloadPath == "temp_dir/title.ext"

UploadPath == "temp_dir/uploaded_file.name"

NoStorage == [dir |-> FALSE, file |-> FALSE, size |-> 0]

\* OverBudget with the size taken in whole megabytes (// for /)
OverBudgetWholeMB(size, mb) == size \div MiB > mb

\* file_size_mb > max_size_mb, where file_size_mb = size / (1024 * 1024): the
\* division by a power of two is exact, so the comparison is one of bytes
OverBudget(size, mb) == size > mb * MiB

\* what ydl.extract_info(url, download=True) did: raised, reported success with
\* no file at the prepared name, or left a file of some size there
DownloadOutcomes(mb) ==
    {[kind |-> "error", size |-> 0], [kind |-> "missing", size |-> 0]}
    \cup {[kind |-> "file", size |-> n] : n \in SizesAround(mb)}

\* download_video_for_gemini(url, max_size_mb): the path returned (or None), the
\* temporary storage it leaves, and the messages it reported
download_video_for_gemini(url, mb, outcome) ==
    LET made == [dir |-> TRUE, file |-> FALSE, size |-> 0]
    IN  CASE outcome.kind = "error" ->
               [path |-> NoPath, fs |-> made, errors |-> {"download_error"}]
          [] outcome.kind = "missing" ->
               [path |-> NoPath, fs |-> made, errors |-> {"download_missing"}]
          [] outcome.kind = "file" /\ OverBudget(outcome.size, mb) ->
               [path |-> NoPath, fs |-> made, errors |-> {"size_warning"}]
          [] OTHER ->
               [path |-> DownloadPath,
                fs |-> [dir |-> TRUE, file |-> TRUE, size |-> outcome.size],
                errors |-> {}]

-----------------------------------------------------------------------------
(* analyze_video_with_gemini                                               *)

\* a reply of the service, as the pieces it is written from: commentary, an
\* optional fenced block around the body, commentary
NoParts == [pre |-> <<>>, wrap |-> "none", body |-> <<>>, post |-> <<>>]

FenceOpen(wrap) ==
    CASE wrap = "json" -> FenceJson \o <<"\n">>
      [] wrap = "plain" -> Fence \o <<"\n">>
      [] OTHER -> <<>>

FenceClose(wrap) == IF wrap = "none" THEN <<>> ELSE <<"\n">> \o Fence

\* response.text
ReplyText(parts) ==
    parts.pre \o FenceOpen(parts.wrap) \o parts.body \o FenceClose(parts.wrap) \o parts.post

\* what the open() of a local file and the generate_content call did: the file
\* could be read or not; the call returned a reply, raised (network or service
\* error), or returned a response whose text cannot be read
AnalyzeOutcomes(replies, readables) ==
    [readable : readables, service : {"ok"}, reply : replies]
    \cup [readable : readables, service : {"error", "malformed"}, reply : {NoParts}]

\* analyze_video_with_gemini issuing the request a second time when the first fails
analyze_video_with_retry(storage, user_investments, is_youtube_url, outcome) ==
    LET opened == is_youtube_url \/ (storage.file /\ outcome.readable)
        call   == [payload |-> IF is_youtube_url THEN "file_data" ELSE "inline_data",
                   prompt_portfolio |-> user_investments]
    IN  [text  |-> IF opened /\ outcome.service = "ok"
                   THEN <<"str", ReplyText(outcome.reply)>> ELSE None,
         calls |-> IF ~opened THEN <<>>
                   ELSE IF outcome.service = "ok" THEN <<call>> ELSE <<call, call>>,
         error |-> ~(opened /\ outcome.service = "ok"),
         raised |-> FALSE,
         user_investments |-> user_investments]

\* analyze_video_with_gemini without its except clause: the failure leaves it
analyze_video_uncaught(storage, user_investments, is_youtube_url, outcome) ==
    LET opened == is_youtube_url \/ (storage.file /\ outcome.readable)
        call   == [payload |-> IF is_youtube_url THEN "file_data" ELSE "inline_data",
                   prompt_portfolio |-> user_investments]
    IN  [text  |-> IF opened /\ outcome.service = "ok"
                   THEN <<"str", ReplyText(outcome.reply)>> ELSE None,
         calls |-> IF opened THEN <<call>> ELSE <<>>,
         error |-> FALSE,
         raised |-> ~(opened /\ outcome.service = "ok"),
         user_investments |-> user_investments]

\* analyze_video_with_gemini taking entries out of the dict it was passed
analyze_video_consuming(storage, user_investments, is_youtube_url, outcome) ==
    LET opened == is_youtube_url \/ (storage.file /\ outcome.readable)
        call   == [payload |-> IF is_youtube_url THEN "file_data" ELSE "inline_data",
                   prompt_portfolio |-> user_investments]
    IN  [text  |-> IF opened /\ outcome.service = "ok"
                   THEN <<"str", ReplyText(outcome.reply)>> ELSE None,
         calls |-> IF opened THEN <<call>> ELSE <<>>,
         error |-> ~(opened /\ outcome.service = "ok"),
         raised |-> FALSE,
         user_investments |-> <<>>]

\* analyze_video_with_gemini(client, video_source, user_investments, is_youtube_url):
\* the text returned (or None), the requests issued, whether st.error was called,
\* whether an exception left the function, and the dict it was passed
analyze_video_with_gemini(storage, user_investments, is_youtube_url, outcome) ==
    LET opened == is_youtube_url \/ (storage.file /\ outcome.readable)
        call   == [payload |-> IF is_youtube_url THEN "file_data" ELSE "inline_data",
                   prompt_portfolio |-> user_investments]
    IN  [text  |-> IF opened /\ outcome.service = "ok"
                   THEN <<"str", ReplyText(outcome.reply)>> ELSE None,
         calls |-> IF opened THEN <<call>> ELSE <<>>,
         error |-> ~(opened /\ outcome.service = "ok"),
         raised |-> FALSE,
         user_investments |-> user_investments]

-----------------------------------------------------------------------------
(* Replies of the analysis service                                         *)

Q(text) == <<"\"">> \o text \o <<"\"">>

\* {"relevance_score":85,"risk_assessment":"medium"}
ExampleObject ==
    <<"{">> \o Q(K_relevance_score) \o <<":", "8", "5", ",">>
    \o Q(K_risk_assessment) \o <<":">> \o Q(T_medium) \o <<"}">>

\* {}
EmptyObject == <<"{", "}">>

\* {"key_insights":[{"a":1}],"risk_assessment":"HIGH"}
NestedObject ==
    <<"{">> \o Q(K_key_insights) \o <<":", "[", "{">> \o Q(<<"a">>) \o <<":", "1", "}", "]", ",">>
    \o Q(K_risk_assessment) \o <<":">> \o Q(<<"H", "I", "G", "H">>) \o <<"}">>

\* {"relevance_score":"85"}
StringScore == <<"{">> \o Q(K_relevance_score) \o <<":">> \o Q(<<"8", "5">>) \o <<"}">>

\* {"specific_matches":5,"risk_assessment":"extreme"}
OddTypes ==
    <<"{">> \o Q(K_specific_matches) \o <<":", "5", ",">>
    \o Q(K_risk_assessment) \o <<":">> \o Q(<<"e", "x", "t", "r", "e", "m", "e">>) \o <<"}">>

\* {"risk_assessment":null}
NullRisk == <<"{">> \o Q(K_risk_assessment) \o <<":", "n", "u", "l", "l", "}">>

BareNumber == <<"4", "2">>

Prose == <<"o", "o", "p", "s">>

\* {"a":1
Unclosed == <<"{">> \o Q(<<"a">>) \o <<":", "1">>

Reversed == <<"}", " ", "{">>

\* a text longer than the excerpt
LongProse == [n \in 1..(ExcerptLen + 1) |-> "y"]

ValidObjects == {ExampleObject, EmptyObject, NestedObject, StringScore, OddTypes, NullRisk}

Bodies == ValidObjects \cup {BareNumber, Prose, Unclosed, Reversed, LongProse}

\* a word between blanks, a brace of either kind, a fence marker
NoiseTokens == {<<" ", "x", " ">>, <<"{">>, <<"}">>, Fence}

\* commentary: up to n tokens, one after the other
RECURSIVE NoiseTexts(_)
NoiseTexts(n) ==
    IF n = 0 THEN {<<>>}
    ELSE NoiseTexts(n - 1) \cup {t \o rest : t \in NoiseTokens, rest \in NoiseTexts(n - 1)}

Wraps == {"none", "json", "plain"}

\* the replies the parser is tried on
ParserReplies ==
    [pre : NoiseTexts(MaxNoise), wrap : Wraps, body : Bodies, post : NoiseTexts(MaxNoise)]

\* the replies the whole pipeline is run on
PipelineReplies ==
    [pre : {<<>>, <<" ", "x", " ">>}, wrap : {"json"}, body : {ExampleObject, StringScore}, post : {<<>>}]
    \cup [pre : {<<>>}, wrap : {"none"}, body : {<<>>, EmptyObject, BareNumber, Prose}, post : {<<>>}]

-----------------------------------------------------------------------------
(* main(): the host's portfolio actions and the three analysis branches    *)

YouTube == "YouTube URL"

OtherUrl == "Instagram/TikTok/Other URL"

Upload == "Upload Video File"

NotParsed == [value |-> None, failed |-> FALSE, excerpt |-> <<>>]

NoEnv ==
    [extract |-> "", download |-> [kind |-> "", size |-> 0],
     analyze |-> [readable |-> TRUE, service |-> "", reply |-> NoParts],
     upload_size |-> 0]

UploadSizes == SizesAround(UploadLimitMB)

\* where main() goes on after the body of its try block (lines 404-405, 467-469);
\* the YouTube branch has no try block and nothing to clean up
AfterTry == IF input_type = YouTube THEN "returned" ELSE "cleanup"

\* where an exception raised inside the branch goes: to the except clause
\* (lines 407, 471), or, in the YouTube branch, out of main()
OnRaise == IF input_type = YouTube THEN "returned" ELSE "except"

Init ==
    /\ pc = "idle"
    /\ input_type = ""
    /\ investments = <<>>
    /\ investments_before = <<>>
    /\ video_info = NoInfo
    /\ max_size_mb = DefaultMaxSizeMB
    /\ fs = NoStorage
    /\ video_path = NoPath
    /\ response_text = None
    /\ analysis_result = NotParsed
    /\ shown = NothingShown
    /\ service_calls = <<>>
    /\ errors = {}
    /\ escaped = FALSE
    /\ video_url = <<>>
    /\ called = <<>>
    /\ env = NoEnv

\* lines 278-287: the investment form adds or replaces an entry
AddInvestment ==
    /\ pc = "idle"
    /\ \E symbol \in Symbols, investment_type \in InvestmentTypes, amount \in Amounts :
         investments' =
             [k \in DOMAIN investments \cup {symbol} |->
                 IF k = symbol
                 THEN [type |-> investment_type, amount |-> amount, notes |-> ""]
                 ELSE investments[k]]
    /\ UNCHANGED <<pc, input_type, investments_before, video_info, max_size_mb, fs,
                   video_path, response_text, analysis_result, shown, service_calls,
                   errors, escaped, video_url, called, env>>

\* lines 297-299: the Remove button deletes an entry
RemoveInvestment ==
    /\ pc = "idle"
    /\ \E symbol \in DOMAIN investments :
         investments' = [k \in DOMAIN investments \ {symbol} |-> investments[k]]
    /\ UNCHANGED <<pc, input_type, investments_before, video_info, max_size_mb, fs,
                   video_path, response_text, analysis_result, shown, service_calls,
                   errors, escaped, video_url, called, env>>

\* lines 302-317 and 354-357: a URL is typed in and its Analyze button pressed
ClickAnalyze ==
    /\ pc = "idle"
    /\ DOMAIN investments # {}
    /\ \E choice \in {YouTube, OtherUrl}, url \in Urls :
         /\ input_type' = choice
         /\ video_url' = url
    /\ investments_before' = investments
    /\ pc' = "resolve"
    /\ UNCHANGED <<investments, video_info, max_size_mb, fs, video_path, response_text,
                   analysis_result, shown, service_calls, errors, escaped, called, env>>

\* lines 412-447: a file is uploaded; over the limit it is refused, else the
\* button stages it in a fresh temporary directory (the write of line 447 is
\* taken to succeed)
UploadAndClick ==
    /\ pc = "idle"
    /\ DOMAIN investments # {}
    /\ input_type' = Upload
    /\ investments_before' = investments
    /\ \E size \in UploadSizes :
         /\ env' = [env EXCEPT !.upload_size = size]
         /\ IF size > UploadLimitMB * MiB
            THEN /\ errors' = errors \cup {"upload_too_large"}
                 /\ pc' = "returned"
                 /\ UNCHANGED <<fs, video_path>>
            ELSE /\ fs' = [dir |-> TRUE, file |-> TRUE, size |-> size]
                 /\ video_path' = UploadPath
                 /\ pc' = "analyze"
                 /\ UNCHANGED errors
    /\ UNCHANGED <<investments, video_info, max_size_mb, response_text, analysis_result,
                   shown, service_calls, escaped, video_url, called>>

\* lines 321 and 361: video_info = get_video_info_basic(video_url)
Resolve ==
    /\ pc = "resolve"
    /\ \E outcome \in ExtractOutcomes :
         LET r == get_video_info_basic(video_url, outcome)
         IN  /\ env' = [env EXCEPT !.extract = outcome]
             /\ errors' = errors \cup (IF r.error THEN {"info_error"} ELSE {})
             /\ IF r.raised
                THEN /\ escaped' = TRUE
                     /\ pc' = "returned"
                     /\ UNCHANGED video_info
                ELSE /\ video_info' = r.info
                     /\ pc' = IF input_type = YouTube THEN "analyze" ELSE "download"
                     /\ UNCHANGED escaped
    /\ called' = Append(called, "get_video_info_basic")
    /\ UNCHANGED <<input_type, investments, investments_before, max_size_mb, fs, video_path,
                   response_text, analysis_result, shown, service_calls, video_url>>

\* lines 379-381: video_path = download_video_for_gemini(video_url)
Download ==
    /\ pc = "download"
    /\ \E outcome \in DownloadOutcomes(max_size_mb) :
         LET r == download_video_for_gemini(video_url, max_size_mb, outcome)
         IN  /\ env' = [env EXCEPT !.download = outcome]
             /\ video_path' = r.path
             /\ fs' = r.fs
             /\ errors' = errors \cup r.errors
             /\ pc' = IF r.path # NoPath THEN "analyze" ELSE "returned"
    /\ called' = Append(called, "download_video_for_gemini")
    /\ UNCHANGED <<input_type, investments, investments_before, video_info, max_size_mb,
                   response_text, analysis_result, shown, service_calls, escaped, video_url>>

\* lines 339-343, 389-393, 452-456: response_text = analyze_video_with_gemini(...)
\* (line 384 first measures the file download_video_for_gemini has just found)
Analyze ==
    /\ pc = "analyze"
    /\ \E outcome \in AnalyzeOutcomes(PipelineReplies,
                                      IF input_type = YouTube THEN {TRUE} ELSE BOOLEAN) :
         LET r == analyze_video_with_gemini(fs, investments, input_type = YouTube, outcome)
         IN  /\ env' = [env EXCEPT !.analyze = outcome]
             /\ service_calls' = service_calls \o r.calls
             /\ errors' = errors \cup (IF r.error THEN {"gemini_error"} ELSE {})
             /\ investments' = r.user_investments
             /\ IF r.raised
                THEN /\ escaped' = (input_type = YouTube)
                     /\ pc' = OnRaise
                     /\ UNCHANGED response_text
                ELSE /\ response_text' = r.text
                     /\ pc' = IF Truthy(r.text) THEN "parse" ELSE AfterTry
                     /\ UNCHANGED escaped
    /\ called' = Append(called, "analyze_video_with_gemini")
    /\ UNCHANGED <<input_type, investments_before, video_info, max_size_mb, fs, video_path,
                   analysis_result, shown, video_url>>

\* lines 344-352, 394-402, 457-465: analysis_result = parse_gemini_response(response_text)
Parse ==
    /\ pc = "parse"
    /\ LET r == parse_gemini_response(response_text[2])
       IN  /\ analysis_result' = r
           /\ errors' = errors \cup (IF r.failed THEN {"parse_error"} ELSE {})
                               \cup (IF Truthy(r.value) THEN {} ELSE {"failed_to_parse"})
           /\ pc' = IF Truthy(r.value) THEN "display" ELSE AfterTry
    /\ called' = Append(called, "parse_gemini_response")
    /\ UNCHANGED <<input_type, investments, investments_before, video_info, max_size_mb, fs,
                   video_path, response_text, shown, service_calls, escaped, video_url, env>>

\* lines 346-348, 396-398, 459-461: display_analysis_results(analysis_result)
Display ==
    /\ pc = "display"
    /\ LET d == display_analysis_results(analysis_result.value)
       IN  /\ shown' = d
           /\ IF d.raised # ""
              THEN /\ escaped' = (input_type = YouTube)
                   /\ pc' = OnRaise
              ELSE /\ pc' = AfterTry
                   /\ UNCHANGED escaped
    /\ called' = Append(called, "display_analysis_results")
    /\ UNCHANGED <<input_type, investments, investments_before, video_info, max_size_mb, fs,
                   video_path, response_text, analysis_result, service_calls, errors,
                   video_url, env>>

\* lines 404-405 (os.remove) and 467-469 (os.remove, os.rmdir)
Cleanup ==
    /\ pc = "cleanup"
    /\ IF ~fs.file
       THEN /\ pc' = "except"
            /\ UNCHANGED fs
       ELSE /\ fs' = [fs EXCEPT !.file = FALSE,
                                !.dir = IF input_type = Upload THEN FALSE ELSE @]
            /\ pc' = "returned"
    /\ UNCHANGED <<input_type, investments, investments_before, video_info, max_size_mb,
                   video_path, response_text, analysis_result, shown, service_calls, errors,
                   escaped, video_url, called, env>>

\* lines 407-410 and 471-476: the except clauses
Except ==
    /\ pc = "except"
    /\ errors' = errors \cup {"processing_error"}
    /\ fs' = [fs EXCEPT !.file = FALSE,
                        !.dir = IF input_type = Upload THEN FALSE ELSE @]
    /\ pc' = "returned"
    /\ UNCHANGED <<input_type, investments, investments_before, video_info, max_size_mb,
                   video_path, response_text, analysis_result, shown, service_calls,
                   escaped, video_url, called, env>>

\* the script run ends; the next one starts from the session state alone, and
\* fs follows the storage of one invocation at a time
Rerun ==
    /\ pc = "returned"
    /\ pc' = "idle"
    /\ input_type' = ""
    /\ investments_before' = <<>>
    /\ video_info' = NoInfo
    /\ fs' = NoStorage
    /\ video_path' = NoPath
    /\ response_text' = None
    /\ analysis_result' = NotParsed
    /\ shown' = NothingShown
    /\ service_calls' = <<>>
    /\ errors' = {}
    /\ escaped' = FALSE
    /\ video_url' = <<>>
    /\ called' = <<>>
    /\ env' = NoEnv
    /\ UNCHANGED <<investments, max_size_mb>>

Next ==
    \/ AddInvestment
    \/ RemoveInvestment
    \/ ClickAnalyze
    \/ UploadAndClick
    \/ Resolve
    \/ Download
    \/ Analyze
    \/ Parse
    \/ Display
    \/ Cleanup
    \/ Except
    \/ Rerun

Spec == Init /\ [][Next]_vars

-----------------------------------------------------------------------------
(* The parser and the display on their own: main() has reached line 344    *)
(* of the YouTube branch with some reply of the service in response_text   *)

ExamplePortfolio == [k \in {"AAPL"} |-> [type |-> "Stock", amount |-> 1000, notes |-> ""]]

InitParse ==
    /\ pc = "parse"
    /\ input_type = YouTube
    /\ investments = ExamplePortfolio
    /\ investments_before = ExamplePortfolio
    /\ video_url = YouTubeUrl
    /\ video_info = get_video_info_basic(YouTubeUrl, "full").info
    /\ max_size_mb = DefaultMaxSizeMB
    /\ fs = NoStorage
    /\ video_path = NoPath
    /\ \E parts \in ParserReplies :
         /\ env = [NoEnv EXCEPT !.extract = "full",
                                !.analyze = [readable |-> TRUE, service |-> "ok", reply |-> parts]]
         /\ response_text = <<"str", ReplyText(parts)>>
    /\ analysis_result = NotParsed
    /\ shown = NothingShown
    /\ service_calls = <<[payload |-> "file_data", prompt_portfolio |-> ExamplePortfolio]>>
    /\ errors = {}
    /\ escaped = FALSE
    /\ called = <<"get_video_info_basic", "analyze_video_with_gemini">>

NextParse ==
    \/ Parse
    \/ Display

SpecParse == InitParse /\ [][NextParse]_vars

-----------------------------------------------------------------------------
(* download_video_for_gemini on its own, under any size budget: main() has  *)
(* reached line 379 of the other-URL branch                                *)

Budgets == 1..MaxBudgetMB \cup {DefaultMaxSizeMB}

InitAcquire ==
    /\ pc = "download"
    /\ input_type = OtherUrl
    /\ investments = ExamplePortfolio
    /\ investments_before = ExamplePortfolio
    /\ video_url \in Urls
    /\ \E outcome \in ExtractOutcomes :
         /\ env = [NoEnv EXCEPT !.extract = outcome]
         /\ video_info = get_video_info_basic(video_url, outcome).info
         /\ errors = IF outcome = "raises" THEN {"info_error"} ELSE {}
    /\ max_size_mb \in Budgets
    /\ fs = NoStorage
    /\ video_path = NoPath
    /\ response_text = None
    /\ analysis_result = NotParsed
    /\ shown = NothingShown
    /\ service_calls = <<>>
    /\ escaped = FALSE
    /\ called = <<"get_video_info_basic">>

NextAcquire == Download

SpecAcquire == InitAcquire /\ [][NextAcquire]_vars

-----------------------------------------------------------------------------
(* Properties                                                              *)

Called(f) == \E n \in 1..Len(called) : called[n] = f

ParseDone == Called("parse_gemini_response")

\* the raw text parse_gemini_response was given
RawText == response_text[2]

\* the valid JSON object the reply was written around
EmbeddedBody == env.analyze.reply.body

\* C1: once the invocation has returned, neither the temporary file nor its
\* temporary directory exists, whichever way the invocation ended.
C1_TempStorageReleased == pc = "returned" => ~fs.dir /\ ~fs.file

\* C2: download_video_for_gemini never returns a path to a file larger than the
\* budget: a larger file is deleted and None is returned, under every budget.
C2_NeverOverBudget ==
    Called("download_video_for_gemini") =>
        /\ video_path # NoPath => fs.file /\ fs.size <= max_size_mb * MiB
        /\ (env.download.kind = "file" /\ env.download.size > max_size_mb * MiB) =>
               video_path = NoPath /\ ~fs.file

C2_Witness ==
    /\ Called("download_video_for_gemini")
    /\ max_size_mb # DefaultMaxSizeMB
    /\ env.download.kind = "file"
    /\ env.download.size = max_size_mb * MiB + 1
    /\ video_path = NoPath
    /\ ~fs.file

PlainText(t) ==
    ~Contains(t, <<"{">>) /\ ~Contains(t, <<"}">>) /\ ~Contains(t, Fence)

C4_ExcerptIsRawPrefix ==
    ParseDone =>
        /\ analysis_result.failed =>
               /\ Len(analysis_result.excerpt) <= ExcerptLen
               /\ analysis_result.excerpt = Prefix(RawText, ExcerptLen)
        /\ (~Contains(RawText, <<"{">>) /\ ~Contains(RawText, <<"}">>)) =>
               analysis_result.failed

\* C5: get_video_info_basic never lets a failure out: when the extraction raises
\* it returns title "Unknown", duration 0, platform "Unknown", reports the error,
\* and main() goes on to the next step.
C5_ResolveNeverFails ==
    [][pc = "resolve" =>
          /\ pc' \in {"analyze", "download"}
          /\ ~escaped'
          /\ env'.extract = "raises" =>
                 /\ video_info'.title = "Unknown"
                 /\ video_info'.duration = 0
                 /\ video_info'.platform = "Unknown"
                 /\ "info_error" \in errors']_vars

C5_Witness ==
    /\ pc = "download"
    /\ env.extract = "raises"
    /\ video_info.title = "Unknown"
    /\ video_info.duration = 0
    /\ video_info.platform = "Unknown"
    /\ "info_error" \in errors
    /\ ~escaped

ListKeys == {K_specific_matches, K_key_insights, K_action_items, K_visual_elements}

ShownList(k) ==
    CASE k = K_specific_matches -> shown.specific_matches
      [] k = K_key_insights -> shown.key_insights
      [] k = K_action_items -> shown.action_items
      [] OTHER -> shown.visual_elements

\* C6: every decoded JSON object is validated without failure: an absent or
\* wrongly typed list field gives the empty sequence, an absent score gives 0,
\* and the risk level is low, medium, high or "unknown".
C6_ValidationTotal ==
    (/\ pc = "returned"
     /\ ParseDone
     /\ ~analysis_result.failed
     /\ Tag(analysis_result.value) = "obj") =>
        /\ shown.rendered
        /\ shown.raised = ""
        /\ shown.risk \in {T_low, T_medium, T_high, T_unknown}
        /\ \A k \in ListKeys :
               Tag(Get(analysis_result.value, k, None)) # "list" => ShownList(k) = <<>>
        /\ Get(analysis_result.value, K_relevance_score, None) = None =>
               shown.score = <<"int", 0>>

AnalyzeDone == Called("analyze_video_with_gemini")

ExpectedPayload == IF input_type = YouTube THEN "file_data" ELSE "inline_data"

\* C7 as stated: the service is called at most once in an invocation; once the
\* analysis step has run it has been called exactly once, with the remote
\* reference for a YouTube URL and with the inline bytes for a local file.
C7_ServiceCalledOnce ==
    /\ Len(service_calls) <= 1
    /\ AnalyzeDone =>
           /\ Len(service_calls) = 1
           /\ service_calls[1].payload = ExpectedPayload

\* C7 amended: the service is called at most once in an invocation and never
\* again after a failure; once the analysis step has run it has been called
\* exactly once, with the remote reference for a YouTube URL and with the inline
\* bytes for a local file that could be read, and not at all for a local file
\* that could not be read.
C7_ServiceCalledOnceIfReadable ==
    /\ Len(service_calls) <= 1
    /\ (AnalyzeDone /\ (input_type = YouTube \/ env.analyze.readable)) =>
           /\ Len(service_calls) = 1
           /\ service_calls[1].payload = ExpectedPayload
    /\ (AnalyzeDone /\ input_type # YouTube /\ ~env.analyze.readable) =>
           service_calls = <<>>

C7_Witness ==
    /\ pc = "returned"
    /\ input_type = OtherUrl
    /\ env.analyze.service = "error"
    /\ Len(service_calls) = 1
    /\ service_calls[1].payload = "inline_data"

AnalyzeFailed ==
    \/ env.analyze.service \in {"error", "malformed"}
    \/ input_type # YouTube /\ ~env.analyze.readable

\* C8: a failure of the analysis call is caught in analyze_video_with_gemini: it
\* returns None and reports the error, no exception reaches the host, and
\* neither the parser nor the display runs in that invocation.
C8_AnalysisFailureContained ==
    (AnalyzeDone /\ AnalyzeFailed) =>
        /\ response_text = None
        /\ "gemini_error" \in errors
        /\ ~escaped
        /\ ~Called("parse_gemini_response")
        /\ ~Called("display_analysis_results")
        /\ analysis_result = NotParsed
        /\ shown = NothingShown
        /\ pc \in {"cleanup", "returned"}

C8_Witness ==
    /\ pc = "returned"
    /\ input_type = YouTube
    /\ env.analyze.service = "malformed"
    /\ response_text = None
    /\ "gemini_error" \in errors
    /\ ~escaped

\* C9: no step of the pipeline changes the portfolio: during and after an
\* invocation it is what it was when the invocation began, and it changes only
\* by the host's add and remove actions, between invocations.
C9_PortfolioUntouched ==
    /\ [](pc # "idle" => investments = investments_before)
    /\ [][investments' # investments => pc = "idle" /\ pc' = "idle"]_vars

C9_Witness ==
    /\ pc = "returned"
    /\ shown.rendered
    /\ Len(service_calls) = 1
    /\ Cardinality(DOMAIN investments) = 2
    /\ investments = investments_before

\* C10: the text handed to json.loads is the working text from its first "{" to
\* its last "}" exactly when both exist and the first "{" comes before the last
\* "}", and the whole working text in every other case.
C10_CandidateRule ==
    ParseDone =>
        LET text  == WorkingText(RawText)
            first == Find(text, <<"{">>)
            last  == RFind(text, <<"}">>)
        IN  JsonCandidate(RawText) =
                IF first # -1 /\ last # -1 /\ first < last
                THEN Slice(text, first, last + 1)
                ELSE text

\* C11: when the download is reported successful but the file is missing or has
\* zero bytes, download_video_for_gemini reports a failure and returns no path,
\* so a zero-byte file never reaches the analysis step as inline content.
C11_EmptyDownloadIsError ==
    (/\ Called("download_video_for_gemini")
     /\ \/ env.download.kind = "missing"
        \/ env.download.kind = "file" /\ env.download.size = 0) =>
        /\ video_path = NoPath
        /\ errors \cap {"download_error", "download_missing"} # {}
        /\ ~Called("analyze_video_with_gemini")
        /\ service_calls = <<>>

====
